---- MODULE Spec2Model ----
(***************************************************************************)
(* MySQL external authentication of salt: salt/utils/mysql.py (option      *)
(* resolver get_mysql_options and connect) and salt/auth/mysql.py (auth).  *)
(*                                                                         *)
(* Python dictionaries are functions from strings; {} is the function with *)
(* the empty domain, <<>>.  An SQL                                         *)
(* template is the sequence of the pieces str.format sees: literal text    *)
(* [lit |-> s] and replacement fields [idx |-> n] ("{n}").                 *)
(*                                                                         *)
(* salt/auth/mysql.py line 72 reads "if conn is False" without the colon;  *)
(* the statement is modelled as the test it spells, "if conn is False:".   *)
(***************************************************************************)
EXTENDS Integers, Sequences, FiniteSets, TLC

VARIABLES
    __opts__,      \* process-wide configuration the loader puts in module scope
    users,         \* backing store: the rows of table `users`
    server,        \* backing store: how the server of each hostname answers
    pc,            \* position of each auth() call
    username,      \* auth(): argument username of each call
    password,      \* auth(): argument password of each call
    _opts,         \* auth(): local _opts of each call
    conn,          \* auth(): local conn of each call
    cur,           \* auth(): local cur of each call (its rowcount)
    ret,           \* what each call returned
    connections,   \* connections currently open on the server side
    opened,        \* number of connections each call opened
    executed,      \* number of queries each call sent
    options_key,   \* get_mysql_options(): argument options_key
    options,       \* get_mysql_options(): argument options
    custom_defaults, \* get_mysql_options(): argument custom_defaults
    _options       \* records returned by successive get_mysql_options() calls

authVars == <<users, server, pc, username, password, _opts, conn, cur, ret,
              connections, opened, executed>>
resolveVars == <<options_key, options, custom_defaults, _options>>
vars == <<__opts__, authVars, resolveVars>>

(***************************************************************************)
(* Bounds                                                                  *)
(***************************************************************************)
MaxCalls == 2      \* concurrent auth() calls
MaxRows == 2       \* rows in table users
MaxResolves == 2   \* successive get_mysql_options() calls with the same arguments

Calls == 1..MaxCalls

(***************************************************************************)
(* Python values.  Every value a variable can hold besides a string or a   *)
(* dictionary is a record tagged with its type.                            *)
(***************************************************************************)
None == [type |-> "NoneType"]
True == [type |-> "bool", v |-> TRUE]
False == [type |-> "bool", v |-> FALSE]
Connection(h, id) == [type |-> "Connection", host |-> h, id |-> id]
Cursor(n) == [type |-> "Cursor", rowcount |-> n]

\* the result of a call that may raise
Returns(v) == [exc |-> "None", value |-> v]
Raises(e) == [exc |-> e, value |-> None]

(***************************************************************************)
(* Values                                                                  *)
(***************************************************************************)
Get(d, k, default) == IF k \in DOMAIN d THEN d[k] ELSE default

Update(d, e) == [k \in DOMAIN d \cup DOMAIN e |-> IF k \in DOMAIN e THEN e[k] ELSE d[k]]

DefaultAuthSql ==
    << [lit |-> "SELECT username FROM users WHERE username = \""], [idx |-> 0],
       [lit |-> "\" AND password = SHA2(\""], [idx |-> 1],
       [lit |-> "\", 256)"] >>

\* runtime overrides of auth_sql: one that selects no row, one with a
\* replacement field that has no argument
NoRowSql == << [lit |-> "SELECT username FROM users WHERE 1=0"] >>
BadFieldSql == << [lit |-> "SELECT username FROM users WHERE username = \""], [idx |-> 2],
                  [lit |-> "\""] >>

auth_options_key == "mysql_auth"
auth_defaults == [auth_sql |-> DefaultAuthSql]

(***************************************************************************)
(* salt/utils/mysql.py                                                     *)
(***************************************************************************)
_get_mysql_defaults(custom) ==
    LET defaults == [hostname |-> "localhost",
                     username |-> "salt",
                     password |-> "salt",
                     database |-> "salt",
                     port |-> 3306,
                     unix_socket |-> "/tmp/mysql.sock",
                     charset |-> "utf8",
                     ssl |-> <<>>]
    IN  IF custom # None THEN Update(defaults, custom) ELSE defaults

\* The parameter `opts` (named options in the source) is never read: line 92
\* takes the subsection from the module-scope __opts__.
get_mysql_options(key, opts, custom) ==
    LET defaults == _get_mysql_defaults(custom)
        sub == Get(__opts__, key, <<>>)
    IN  [attr \in DOMAIN defaults |->
            IF attr \notin DOMAIN sub THEN defaults[attr] ELSE sub[attr]]

\* MySQLdb.connect as the server of the host answers it
MySQLdb_connect(hostname, id) ==
    IF server[hostname] = "OperationalError" THEN Raises("OperationalError")
    ELSE IF server[hostname] = "InterfaceError" THEN Raises("InterfaceError")
    ELSE Returns(Connection(hostname, id))

\* mutant: one module-level connection, refused while an earlier one is open
connect_single(opts, id) ==
    IF opts = None \/ connections # {} THEN Returns(False)
    ELSE LET r == MySQLdb_connect(opts["hostname"], id)
         IN  IF r.exc = "OperationalError" THEN Returns(False) ELSE r

connect(opts, id) ==
    IF opts = None THEN Returns(False)
    ELSE LET r == MySQLdb_connect(opts["hostname"], id)
         IN  IF r.exc = "OperationalError" THEN Returns(False) ELSE r

(***************************************************************************)
(* The driver and the server                                               *)
(***************************************************************************)
RECURSIVE Join(_)
Join(strs) == IF strs = <<>> THEN "" ELSE Head(strs) \o Join(Tail(strs))

\* str.format(*args): "{n}" is replaced by args[n]; IndexError when there is
\* no such argument
format(template, args) ==
    IF \E i \in DOMAIN template :
          "idx" \in DOMAIN template[i] /\ template[i].idx >= Len(args)
    THEN Raises("IndexError")
    ELSE Returns(Join([i \in DOMAIN template |->
                        IF "idx" \in DOMAIN template[i]
                        THEN args[template[i].idx + 1]
                        ELSE template[i].lit]))

SHA2(p) == "sha256:" \o p

Usernames == {"diana"}
Passwords == {"secret", "wrong"}
RowKinds == {[username |-> "diana", password |-> SHA2("secret")],
             [username |-> "alice", password |-> SHA2("secret")]}

RECURSIVE Total(_, _)
Total(bag, S) ==
    IF S = {} THEN 0
    ELSE LET r == CHOOSE x \in S : TRUE IN bag[r] + Total(bag, S \ {r})

\* the statement the default template gives for u and p
AuthQuery(u, p) ==
    Join(<<DefaultAuthSql[1].lit, u, DefaultAuthSql[3].lit, p, DefaultAuthSql[5].lit>>)

\* the server's answer to a statement: the number of rows of table users it
\* selects, or a syntax error
Select(sql) ==
    IF sql = NoRowSql[1].lit THEN Returns(0)
    ELSE IF \E r \in RowKinds, p \in Passwords : sql = AuthQuery(r.username, p)
    THEN Returns(Total(users,
            {r \in RowKinds : \E p \in Passwords :
                sql = AuthQuery(r.username, p) /\ r.password = SHA2(p)}))
    ELSE Raises("ProgrammingError")

\* cursor.execute(sql) on connection c; the cursor's rowcount
execute(c, sql) ==
    IF server[c.host] = "GoneAway" THEN Raises("OperationalError") ELSE Select(sql)

(***************************************************************************)
(* salt/auth/mysql.py: auth(username, password), one step per statement    *)
(* that talks to another component                                         *)
(***************************************************************************)
\* mutant: any match counts, duplicates included
rowcount_at_least_one(n) == n >= 1

rowcount_is_one(n) == n = 1

\* mutant: the arguments kept in module scope, where the first call put them
args_shared(c) == <<username[1], password[1]>>

\* the arguments of call c, local to its frame
args(c) == <<username[c], password[c]>>

\* the function returns v: the frame and its conn go out of scope.  When the
\* connection object is finalized is the interpreter's business: at once
\* (released = TRUE) or at some later collection.
Return(c, v, released) ==
    /\ pc' = [pc EXCEPT ![c] = "Decided"]
    /\ ret' = [ret EXCEPT ![c] = v]
    /\ connections' = IF released THEN connections \ {c} ELSE connections

\* an exception leaves the function: the traceback keeps the frame, and with
\* it conn, alive while the exception propagates
Raise(c, e) ==
    /\ pc' = [pc EXCEPT ![c] = "Raised"]
    /\ ret' = [ret EXCEPT ![c] = [type |-> e]]
    /\ UNCHANGED connections

\* lines 59-64: the call is entered
Call(c, u, p) ==
    /\ pc[c] = "Idle"
    /\ c > 1 => pc[c - 1] # "Idle"
    /\ username' = [username EXCEPT ![c] = u]
    /\ password' = [password EXCEPT ![c] = p]
    /\ pc' = [pc EXCEPT ![c] = "Resolving"]
    /\ UNCHANGED <<__opts__, users, server, _opts, conn, cur, ret, connections,
                   opened, executed, resolveVars>>

\* lines 65-68
Resolve(c) ==
    /\ pc[c] = "Resolving"
    /\ LET o == get_mysql_options(auth_options_key, __opts__, auth_defaults)
       IN  /\ _opts' = [_opts EXCEPT ![c] = o]
           /\ IF o = None
              THEN Return(c, False, TRUE)
              ELSE /\ pc' = [pc EXCEPT ![c] = "Connecting"]
                   /\ UNCHANGED <<ret, connections>>
    /\ UNCHANGED <<__opts__, users, server, username, password, conn, cur,
                   opened, executed, resolveVars>>

\* lines 70-74
Connect(c) ==
    /\ pc[c] = "Connecting"
    /\ LET r == connect(_opts[c], c)
       IN  IF r.exc # "None"
           THEN /\ Raise(c, r.exc)
                /\ UNCHANGED <<conn, opened>>
           ELSE /\ conn' = [conn EXCEPT ![c] = r.value]
                /\ IF r.value = False
                   THEN /\ Return(c, False, TRUE)
                        /\ UNCHANGED opened
                   ELSE /\ pc' = [pc EXCEPT ![c] = "Querying"]
                        /\ connections' = connections \cup {r.value.id}
                        /\ opened' = [opened EXCEPT ![c] = @ + 1]
                        /\ UNCHANGED ret
    /\ UNCHANGED <<__opts__, users, server, username, password, _opts, cur,
                   executed, resolveVars>>

\* lines 76-77
Query(c) ==
    /\ pc[c] = "Querying"
    /\ LET sql == format(_opts[c]["auth_sql"], args(c))
           r == execute(conn[c], sql.value)
       IN  IF sql.exc # "None"
           THEN /\ Raise(c, sql.exc)
                /\ UNCHANGED <<cur, executed>>
           ELSE /\ executed' = [executed EXCEPT ![c] = @ + 1]
                /\ IF r.exc # "None"
                   THEN /\ Raise(c, r.exc)
                        /\ UNCHANGED cur
                   ELSE /\ cur' = [cur EXCEPT ![c] = Cursor(r.value)]
                        /\ pc' = [pc EXCEPT ![c] = "Deciding"]
                        /\ UNCHANGED <<ret, connections>>
    /\ UNCHANGED <<__opts__, users, server, username, password, _opts, conn,
                   opened, resolveVars>>

\* lines 79-82
Decide(c, released) ==
    /\ pc[c] = "Deciding"
    /\ IF rowcount_is_one(cur[c].rowcount)
       THEN Return(c, True, released)
       ELSE Return(c, False, released)
    /\ UNCHANGED <<__opts__, users, server, username, password, _opts, conn, cur,
                   opened, executed, resolveVars>>

\* the interpreter finalizes the connection object of a call that has ended
Finalize(c) ==
    /\ pc[c] \in {"Decided", "Raised"}
    /\ c \in connections
    /\ connections' = connections \ {c}
    /\ UNCHANGED <<__opts__, users, server, pc, username, password, _opts, conn,
                   cur, ret, opened, executed, resolveVars>>

(***************************************************************************)
(* The configurations and backing stores the calls run against             *)
(***************************************************************************)
Hostnames == {"localhost", "db1"}
ServerStates == {"Up", "OperationalError", "InterfaceError", "GoneAway"}
AuthSqls == {NoRowSql, BadFieldSql}

\* what a subsection of the runtime configuration may set
AuthSections ==
    {<<>>} \cup {[hostname |-> "db1"]}
    \cup {[auth_sql |-> t] : t \in AuthSqls}
    \cup {[hostname |-> "db1", auth_sql |-> t] : t \in AuthSqls}

\* and with a field the resolver does not know
SubSections == AuthSections \cup {[hostname |-> "db1", extra |-> "x"]}

OptionsKeys == {"mysql_auth", "mysql"}

Configs == {<<>>} \cup {k :> s : k \in OptionsKeys, s \in SubSections}

\* every server answers, or one of them is in trouble
Servers == {sv \in [Hostnames -> ServerStates] :
               Cardinality({h \in Hostnames : sv[h] # "Up"}) <= 1}

Tables == {t \in [RowKinds -> 0..MaxRows] : Total(t, RowKinds) <= MaxRows}

InitAuth ==
    /\ users \in Tables
    /\ server \in Servers
    /\ pc = [c \in Calls |-> "Idle"]
    /\ username = [c \in Calls |-> ""]
    /\ password = [c \in Calls |-> ""]
    /\ _opts = [c \in Calls |-> None]
    /\ conn = [c \in Calls |-> None]
    /\ cur = [c \in Calls |-> None]
    /\ ret = [c \in Calls |-> None]
    /\ connections = {}
    /\ opened = [c \in Calls |-> 0]
    /\ executed = [c \in Calls |-> 0]

\* no get_mysql_options() call from outside auth()
InitResolve ==
    /\ options_key = auth_options_key
    /\ options = <<>>
    /\ custom_defaults = auth_defaults
    /\ _options = <<>>

Init ==
    /\ __opts__ \in {<<>>} \cup {auth_options_key :> s : s \in AuthSections \ {<<>>}}
    /\ InitAuth
    /\ InitResolve

Next ==
    \/ \E c \in Calls, u \in Usernames, p \in Passwords : Call(c, u, p)
    \/ \E c \in Calls : Resolve(c)
    \/ \E c \in Calls : Connect(c)
    \/ \E c \in Calls : Query(c)
    \/ \E c \in Calls, released \in BOOLEAN : Decide(c, released)
    \/ \E c \in Calls : Finalize(c)

Spec == Init /\ [][Next]_vars

(***************************************************************************)
(* auth() run alone, start to end, against the configuration and store     *)
(***************************************************************************)
auth(u, p) ==
    LET o == get_mysql_options(auth_options_key, __opts__, auth_defaults)
        r == connect(o, 0)
        sql == format(o["auth_sql"], <<u, p>>)
        n == execute(r.value, sql.value)
    IN  IF o = None THEN False
        ELSE IF r.exc # "None" THEN [type |-> r.exc]
        ELSE IF r.value = False THEN False
        ELSE IF sql.exc # "None" THEN [type |-> sql.exc]
        ELSE IF n.exc # "None" THEN [type |-> n.exc]
        ELSE IF rowcount_is_one(n.value) THEN True
        ELSE False

(***************************************************************************)
(* The option resolver called on its own: successive calls with the same   *)
(* three arguments while the owner of the process-wide configuration       *)
(* reloads it                                                              *)
(***************************************************************************)
CustomDefaults == {None, auth_defaults, [hostname |-> "db2", charset |-> "latin1"]}

GetMysqlOptions ==
    /\ Len(_options) < MaxResolves
    /\ _options' = Append(_options,
                          get_mysql_options(options_key, options, custom_defaults))
    /\ UNCHANGED <<__opts__, authVars, options_key, options, custom_defaults>>

Reload(cfg) ==
    /\ cfg # __opts__
    /\ __opts__' = cfg
    /\ UNCHANGED <<authVars, resolveVars>>

InitR ==
    /\ __opts__ \in Configs
    /\ options_key \in OptionsKeys
    /\ options \in Configs
    /\ custom_defaults \in CustomDefaults
    /\ _options = <<>>
    /\ InitAuth
    /\ users = [r \in RowKinds |-> 0]
    /\ server = [h \in Hostnames |-> "Up"]

NextR ==
    \/ GetMysqlOptions
    \/ \E cfg \in Configs : Reload(cfg)

SpecResolve == InitR /\ [][NextR]_vars

(***************************************************************************)
(* Properties of auth(), checked under Spec                                *)
(***************************************************************************)
Ended(c) == pc[c] \in {"Decided", "Raised"}

\* the connection of call c could not be opened
ConnectFailed(c) ==
    /\ Ended(c)
    /\ _opts[c] # None
    /\ server[_opts[c]["hostname"]] \in {"OperationalError", "InterfaceError"}

\* C1: auth returns True exactly when the query, executed on an opened
\* connection, reported one row; with any other row count it returns False.
C1_VerdictIsRowcountOne ==
    \A c \in Calls :
        /\ (pc[c] = "Decided" /\ ret[c] = True) =>
               (opened[c] = 1 /\ executed[c] = 1 /\ cur[c] # None /\ cur[c].rowcount = 1)
        /\ cur[c] # None => pc[c] \in {"Deciding", "Decided"}
        /\ (cur[c] # None /\ pc[c] = "Decided") =>
               ret[c] = (IF cur[c].rowcount = 1 THEN True ELSE False)

C1_Witness ==
    \E c1, c2 \in Calls :
        /\ pc[c1] = "Decided" /\ cur[c1] # None /\ cur[c1].rowcount = 1 /\ ret[c1] = True
        /\ pc[c2] = "Decided" /\ cur[c2] # None /\ cur[c2].rowcount = 0 /\ ret[c2] = False

\* C2: whatever makes the opening of the connection fail, auth returns False
\* and raises nothing.
C2_ConnectFailureReturnsFalse ==
    \A c \in Calls : ConnectFailed(c) => (pc[c] = "Decided" /\ ret[c] = False)

\* C3: when the connection opened and the query failed, auth returns False;
\* a call whose connection opened always ends with a boolean.
C3_QueryFailureReturnsFalse ==
    \A c \in Calls :
        (Ended(c) /\ opened[c] = 1) =>
            /\ pc[c] = "Decided"
            /\ ret[c] \in {True, False}
            /\ cur[c] = None => ret[c] = False

\* C4: when a call has ended, by a verdict or by a failure, the connection
\* it opened is closed.
C4_ConnectionReleasedAtExit ==
    \A c \in Calls : Ended(c) => c \notin connections

\* C8: under every interleaving each call ends as it would when run alone
\* against the same configuration and store.
C8_CallsIndependent ==
    \A c \in Calls : Ended(c) => ret[c] = auth(username[c], password[c])

C8_Witness ==
    \E c1, c2 \in Calls :
        /\ pc[c1] = "Deciding" /\ Ended(c2)
        /\ password[c1] # password[c2]
        /\ ret[c2] = True

\* C9: two calls with the same username and password end the same way,
\* whatever the earlier one left behind.
C9_Idempotent ==
    \A c1, c2 \in Calls :
        (Ended(c1) /\ Ended(c2) /\ username[c1] = username[c2]
                   /\ password[c1] = password[c2]) => ret[c1] = ret[c2]

C9_Witness ==
    \E c1, c2 \in Calls :
        /\ c1 < c2 /\ Ended(c1) /\ Ended(c2)
        /\ username[c1] = username[c2] /\ password[c1] = password[c2]
        /\ ret[c1] = True /\ ret[c2] = True
        /\ c1 \in connections

\* C10: the phases of a call follow in order: options before the connection,
\* at most one connection and one query, the query only on an opened
\* connection, and a failed connection ends the call with False and no query.
C10_PhaseOrder ==
    \A c \in Calls :
        /\ pc[c] \in {"Idle", "Resolving"} => (_opts[c] = None /\ opened[c] = 0)
        /\ pc[c] = "Connecting" => (_opts[c] # None /\ opened[c] = 0 /\ executed[c] = 0)
        /\ pc[c] = "Querying" => (opened[c] = 1 /\ executed[c] = 0)
        /\ pc[c] = "Deciding" => (opened[c] = 1 /\ executed[c] = 1)
        /\ opened[c] <= 1 /\ executed[c] <= opened[c]
        /\ ConnectFailed(c) => (pc[c] = "Decided" /\ ret[c] = False /\ executed[c] = 0)

(***************************************************************************)
(* Properties of get_mysql_options(), checked under SpecResolve            *)
(***************************************************************************)
\* the subsection of the configuration passed as argument
PassedSection == Get(options, options_key, <<>>)

BuiltIn == _get_mysql_defaults(None)
Merged == _get_mysql_defaults(custom_defaults)

\* C5: each field takes the value of the passed configuration's subsection
\* if set there, else of custom_defaults if set there, else the built-in one.
C5_Precedence ==
    \A i \in DOMAIN _options : \A attr \in DOMAIN Merged :
        /\ attr \in DOMAIN _options[i]
        /\ _options[i][attr] =
              IF attr \in DOMAIN PassedSection THEN PassedSection[attr]
              ELSE IF custom_defaults # None /\ attr \in DOMAIN custom_defaults
                   THEN custom_defaults[attr]
              ELSE BuiltIn[attr]

\* C6: the record has exactly the fields of the merged defaults, and equals
\* the merged defaults when the passed configuration has no subsection.
C6_FieldsAreMergedDefaults ==
    \A i \in DOMAIN _options :
        /\ DOMAIN _options[i] = DOMAIN Merged
        /\ options_key \notin DOMAIN options => _options[i] = Merged

\* C7: calls with the same three arguments return the same record whatever
\* the process-wide configuration holds.
C7_FunctionOfArguments ==
    \A i, j \in DOMAIN _options : _options[i] = _options[j]

====
